---- MODULE Spec2Model ----
(***************************************************************************)
(* Two-stage LLM service of sayso-agent (package llm, Service.Process):    *)
(* plan the tasks, run them wave by wave in goroutines, collect the        *)
(* actions in plan order.                                                  *)
(*                                                                         *)
(* Task ids are modelled as integers: n stands for the id "task_n", and 0  *)
(* for an id that no task of the plan bears.                               *)
(***************************************************************************)
EXTENDS Integers, Sequences, FiniteSets, TLC

\* ---------------------------------------------------------------- bounds
MaxTasks == 2       \* longest plan (number of TaskSpec in TaskPlan.Tasks)
MaxDeps == 2        \* most entries of one DependsOn
MaxPieces == 3      \* most pieces of one text
MaxActions == 3     \* most actions of one llmOut.Actions
MaxTargets == 2     \* most elements of params["targets"]

\* ----------------------------------------------------------- program data
\* keys of the skillPrompts map
skillPrompts == {"create_doc", "create_folder", "send_message"}

\* skills a planned task may carry; "translate" has no prompt registered
PlanSkills == {"send_message", "translate"}

TaskIds == 1..MaxTasks
DepIds == 0..MaxTasks

\* plan.Summary as the planner returned it
PlanSummary == "summary"

\* the reply of Process to a plan without tasks
NoTasksReply == "sorry"

NoError == "nil"
NoAction == [type |-> "nil", by |-> 0]
NoResult == [TaskID |-> 0, Action |-> NoAction, Error |-> NoError, Outputs |-> <<>>]
NoOutput == [Intent |-> "nil", Actions |-> <<>>, Reply |-> "nil"]
Free == 0

\* TaskSpec: ID, Skill, DependsOn (Platform and Input do not influence scheduling)
TaskSpec == [ID : TaskIds, Skill : PlanSkills,
             DependsOn : {D \in SUBSET DepIds : Cardinality(D) <= MaxDeps}]

\* TaskPlan.Tasks as the planner may return it: any list of at most MaxTasks
\* task specs; ids may repeat, dependencies may dangle or form cycles.
Plans == UNION {[1..n -> TaskSpec] : n \in 0..MaxTasks}

\* the action type each skill prompt asks the model to return
ActionType(skill) ==
    CASE skill = "create_doc" -> "feishu_create_doc"
      [] skill = "create_folder" -> "feishu_create_folder"
      [] OTHER -> "send_message"

VARIABLES
    tasks,      \* plan.Tasks
    pc,         \* position of Process / executeTasks
    pending,    \* executeTasks: pending map, id -> index into tasks
    results,    \* executeTasks: results map, id -> TaskResult
    ready,      \* executeTasks: the ready slice of the current wave (ids, in slice order)
    tpc,        \* position of the goroutine started for an id
    res,        \* the local result of the goroutine started for an id
    mu,         \* holder of the mutex mu, or Free
    wave,       \* number of waves started so far
    out,        \* Process: returned *LLMActionOutput (NoOutput = nil)
    err,        \* Process: returned error
    crashed,    \* the runtime aborted the process (fatal error)
    executed,   \* history: number of executeTask calls per task index
    waveOf,     \* history: wave in which the goroutine of an id was started
    sub,        \* placeholder substitution applied to one input (both implementations)
    asr,        \* ASRService.Process: the loop that executes llmOut.Actions
    prs,        \* ParseSendMessageParams applied to one params map
    ex          \* executeTask applied to one task and one depResults map

llmVars == <<tasks, pc, pending, results, ready, tpc, res, mu, wave, out, err,
             crashed, executed, waveOf>>
vars == <<llmVars, sub, asr, prs, ex>>

\* ------------------------------------------------------------- helpers
Range(s) == {s[i] : i \in DOMAIN s}

\* all orders in which a Go map iteration may visit the set S
Orders(S) == {s \in [1..Cardinality(S) -> S] : Range(s) = S}

Max(S) == CHOOSE x \in S : \A y \in S : y <= x

\* variant of the loop that builds pending: the first task listed with an id stays
BuildPendingFirst(ts) ==
    [id \in {ts[i].ID : i \in DOMAIN ts} |->
        CHOOSE i \in DOMAIN ts : ts[i].ID = id /\ \A j \in DOMAIN ts : ts[j].ID = id => i <= j]

\* for i := range tasks { pending[tasks[i].ID] = &tasks[i] }
BuildPending(ts) ==
    [id \in {ts[i].ID : i \in DOMAIN ts} |-> Max({i \in DOMAIN ts : ts[i].ID = id})]

\* variant: an empty result is stored in place of the goroutine's result
MapSetEmpty(m, k, v) == [x \in DOMAIN m \cup {k} |-> IF x = k THEN NoResult ELSE m[x]]

\* variant of m[k] = v: the other entries are lost
MapSetOnly(m, k, v) == [x \in {k} |-> v]

\* m[k] = v on a Go map
MapSet(m, k, v) == [x \in DOMAIN m \cup {k} |-> IF x = k THEN v ELSE m[x]]

\* variant of delete(m, k): the entry stays
MapDeleteNone(m, k) == m

\* delete(m, k) on a Go map
MapDelete(m, k) == [x \in DOMAIN m \ {k} |-> m[x]]

\* variant: a dependency without a result does not hold the task back
canExecuteSkipMissing(task, rs) ==
    \A depID \in task.DependsOn : depID \in DOMAIN rs => rs[depID].Error = NoError

\* canExecute: every dependency has a result without error
canExecute(task, rs) ==
    \A depID \in task.DependsOn : depID \in DOMAIN rs /\ rs[depID].Error = NoError

\* variant: only one of the executable tasks is appended to ready
ReadySetOne(pend, rs) ==
    LET all == {id \in DOMAIN pend : canExecute(tasks[pend[id]], rs)}
    IN  {id \in all : \A other \in all : id <= other}

\* the ids appended to ready in one pass over pending
ReadySet(pend, rs) == {id \in DOMAIN pend : canExecute(tasks[pend[id]], rs)}

\* for _, task := range ready { if results[task.ID].Error != nil { return ... } }
FailedInWave(rdy, rs) == {i \in DOMAIN rdy : rdy[i] \in DOMAIN rs /\ rs[rdy[i]].Error # NoError}

\* variant: the first task of the wave is reported, failed or not
FirstInWave(rdy, rs) == rdy[1]

FirstFailed(rdy, rs) == rdy[CHOOSE i \in FailedInWave(rdy, rs) : \A j \in FailedInWave(rdy, rs) : i <= j]

\* variant: the wait ends with the first goroutine of the wave
WaveDoneFirst(rdy, tp) == tp[rdy[1]] = "done"

\* variant: the wait also ends as soon as one goroutine has recorded a failure
WaveDoneOrFailed(rdy, tp) ==
    \/ \A i \in DOMAIN rdy : tp[rdy[i]] = "done"
    \/ \E i \in DOMAIN rdy : tp[rdy[i]] = "done" /\ res[rdy[i]].Error # NoError

\* wg.Wait() returns when every goroutine of the wave has called wg.Done()
WaveDone(rdy, tp) == \A i \in DOMAIN rdy : tp[rdy[i]] = "done"

\* buildOutput: the actions in the order of plan.Tasks
RECURSIVE CollectActions(_, _, _)
CollectActions(ts, rs, i) ==
    IF i > Len(ts) THEN <<>>
    ELSE (IF ts[i].ID \in DOMAIN rs /\ rs[ts[i].ID].Action # NoAction
          THEN <<rs[ts[i].ID].Action>> ELSE <<>>) \o CollectActions(ts, rs, i + 1)

\* variant: the actions are collected from the last task to the first
RECURSIVE CollectBackwards(_, _, _)
CollectBackwards(ts, rs, i) ==
    IF i < 1 THEN <<>>
    ELSE (IF ts[i].ID \in DOMAIN rs /\ rs[ts[i].ID].Action # NoAction
          THEN <<rs[ts[i].ID].Action>> ELSE <<>>) \o CollectBackwards(ts, rs, i - 1)

buildOutputBackwards(ts, rs) ==
    [Intent |-> PlanSummary, Actions |-> CollectBackwards(ts, rs, Len(ts)), Reply |-> ""]

buildOutput(ts, rs) == [Intent |-> PlanSummary, Actions |-> CollectActions(ts, rs, 1), Reply |-> ""]

\* errors: kind, the task id the message names (0: none), the wrapped error,
\* and the set of further task ids the message lists
TaskError(id, cause) == [kind |-> "task", id |-> id, cause |-> cause, stuck |-> {}]
DeadlockError == [kind |-> "deadlock", id |-> 0, cause |-> NoError, stuck |-> {}]
PlanError == [kind |-> "plan", id |-> 0, cause |-> NoError, stuck |-> {}]
NilError == [kind |-> "nil", id |-> 0, cause |-> NoError, stuck |-> {}]


\* ------------------------------------------------------------- strings
\* A string is a sequence of atoms.  "{" and "}" are the brace characters, a
\* word atom stands for a non-empty run of \w characters that is no part of a
\* longer word, and every other atom stands for text that holds no brace and
\* at least one character outside \w (a URL, a blank).
WordAtoms == {"doc_url", "doc_id", "folder_url", "folder_id", "last_url", "last_note", "x"}
KeyDocUrl == <<"doc_url">>
KeyFolderUrl == <<"folder_url">>
KeyLastUrl == <<"last_url">>
DocLink == <<"https://d/docx/1">>
FolderLink == <<"https://d/drive/folder/2">>

\* "{{" + key + "}}"
Token(key) == <<"{", "{">> \o key \o <<"}", "}">>

\* strings.ReplaceAll(s, old, new) for a non-empty old: the non-overlapping
\* occurrences of old, found from left to right, are replaced by new.
RECURSIVE ReplaceFrom(_, _, _, _)
ReplaceFrom(s, old, new, i) ==
    IF i > Len(s) THEN <<>>
    ELSE IF i + Len(old) - 1 <= Len(s) /\ SubSeq(s, i, i + Len(old) - 1) = old
         THEN new \o ReplaceFrom(s, old, new, i + Len(old))
         ELSE <<s[i]>> \o ReplaceFrom(s, old, new, i + 1)

ReplaceAll(s, old, new) == ReplaceFrom(s, old, new, 1)

\* The (key, value) pairs of depResults in one order in which the two nested
\* range loops of resolvePlaceholders can visit them: the results in any
\* order, the outputs of one result in any order.
OutputPairs(depResults) ==
    UNION {{<<id, k>> : k \in DOMAIN depResults[id].Outputs} : id \in DOMAIN depResults}

Visits(depResults) ==
    {[i \in DOMAIN o |-> <<o[i][2], depResults[o[i][1]].Outputs[o[i][2]]>>] :
        o \in {p \in Orders(OutputPairs(depResults)) :
                 \A i \in DOMAIN p, j \in DOMAIN p, k \in DOMAIN p :
                     (i < j /\ j < k /\ p[i][1] = p[k][1]) => p[j][1] = p[i][1]}}

\* resolvePlaceholders: one ReplaceAll per visited output, each applied to the
\* result of the one before
RECURSIVE resolvePlaceholders(_, _)
resolvePlaceholders(input, visit) ==
    IF visit = <<>> THEN input
    ELSE resolvePlaceholders(ReplaceAll(input, Token(visit[1][1]), visit[1][2]), Tail(visit))

\* \w+ at position i: length of the longest run of word atoms
RECURSIVE WordRun(_, _)
WordRun(s, i) == IF i <= Len(s) /\ s[i] \in WordAtoms THEN 1 + WordRun(s, i + 1) ELSE 0

\* placeholderRE = \{\{(\w+)\}\} tried at position i: the position of the last
\* atom of the match, 0 if there is no match at i
MatchEnd(s, i) ==
    IF i + 1 <= Len(s) /\ s[i] = "{" /\ s[i + 1] = "{"
    THEN LET n == WordRun(s, i + 2)
             e == i + 2 + n
         IN  IF n > 0 /\ e + 1 <= Len(s) /\ s[e] = "}" /\ s[e + 1] = "}" THEN e + 1 ELSE 0
    ELSE 0

\* mutant of ReplaceAllStringFunc: a match whose key is absent is deleted
RECURSIVE ReplaceDropMissing(_, _, _)
ReplaceDropMissing(s, placeholders, i) ==
    IF i > Len(s) THEN <<>>
    ELSE LET e == MatchEnd(s, i) IN
         IF e = 0 THEN <<s[i]>> \o ReplaceDropMissing(s, placeholders, i + 1)
         ELSE LET key == SubSeq(s, i + 2, e - 2) IN
              (IF key \in DOMAIN placeholders THEN placeholders[key] ELSE <<>>)
                  \o ReplaceDropMissing(s, placeholders, e + 1)

\* mutant of ReplaceAllStringFunc: a match whose key is absent loses its braces
RECURSIVE ReplaceUnwrapMissing(_, _, _)
ReplaceUnwrapMissing(s, placeholders, i) ==
    IF i > Len(s) THEN <<>>
    ELSE LET e == MatchEnd(s, i) IN
         IF e = 0 THEN <<s[i]>> \o ReplaceUnwrapMissing(s, placeholders, i + 1)
         ELSE LET key == SubSeq(s, i + 2, e - 2) IN
              (IF key \in DOMAIN placeholders THEN placeholders[key] ELSE key)
                  \o ReplaceUnwrapMissing(s, placeholders, e + 1)

\* placeholderRE.ReplaceAllStringFunc(s, f) from position i: the leftmost
\* match is replaced by f(match), the search goes on after the match and
\* never looks into the replacement
RECURSIVE ReplaceAllStringFunc(_, _, _)
ReplaceAllStringFunc(s, placeholders, i) ==
    IF i > Len(s) THEN <<>>
    ELSE LET e == MatchEnd(s, i) IN
         IF e = 0 THEN <<s[i]>> \o ReplaceAllStringFunc(s, placeholders, i + 1)
         ELSE LET key == SubSeq(s, i + 2, e - 2) IN
              (IF key \in DOMAIN placeholders THEN placeholders[key] ELSE SubSeq(s, i, e))
                  \o ReplaceAllStringFunc(s, placeholders, e + 1)

replacePlaceholdersInStringDropMissing(s, placeholders) == ReplaceDropMissing(s, placeholders, 1)
replacePlaceholdersInStringUnwrapMissing(s, placeholders) == ReplaceUnwrapMissing(s, placeholders, 1)
replacePlaceholdersInString(s, placeholders) == ReplaceAllStringFunc(s, placeholders, 1)

\* ---------------------------------------------------- values of type any
\* A value of Params is tagged with its dynamic type.
Str(t) == [kind |-> "string", v |-> t]
Flag == [kind |-> "bool", v |-> "true"]
List(items) == [kind |-> "[]any", v |-> items]
Map(m) == [kind |-> "map[string]any", v |-> m]
StrMap(m) == [kind |-> "map[string]string", v |-> m]
NilParams == [kind |-> "nil", v |-> <<>>]

\* mutant of replacePlaceholdersInValue: only strings and maps are entered
RECURSIVE replacePlaceholdersInValueNoList(_, _)
replacePlaceholdersInValueNoList(val, placeholders) ==
    CASE val.kind = "string" -> Str(replacePlaceholdersInString(val.v, placeholders))
      [] val.kind = "map[string]any" ->
            Map([k \in DOMAIN val.v |-> replacePlaceholdersInValueNoList(val.v[k], placeholders)])
      [] val.kind = "map[string]string" ->
            Map([k \in DOMAIN val.v |-> Str(replacePlaceholdersInString(val.v[k], placeholders))])
      [] OTHER -> val

RECURSIVE replacePlaceholdersInValue(_, _)
replacePlaceholdersInMap(m, placeholders) ==
    [k \in DOMAIN m |-> replacePlaceholdersInValue(m[k], placeholders)]

replacePlaceholdersInValue(val, placeholders) ==
    CASE val.kind = "string" -> Str(replacePlaceholdersInString(val.v, placeholders))
      [] val.kind = "map[string]any" -> Map(replacePlaceholdersInMap(val.v, placeholders))
      [] val.kind = "map[string]string" ->
            Map([k \in DOMAIN val.v |-> Str(replacePlaceholdersInString(val.v[k], placeholders))])
      [] val.kind = "[]any" ->
            List([i \in DOMAIN val.v |-> replacePlaceholdersInValue(val.v[i], placeholders)])
      [] OTHER -> val

applyPlaceholders(spec, placeholders) ==
    IF DOMAIN placeholders = {} THEN spec
    ELSE IF spec.Params # NilParams
         THEN [spec EXCEPT !.Params = Map(replacePlaceholdersInMap(spec.Params.v, placeholders))]
         ELSE spec

\* ------------------------------------------- inputs of the substitution
RECURSIVE Flatten(_)
Flatten(ps) == IF ps = <<>> THEN <<>> ELSE Head(ps) \o Flatten(Tail(ps))

\* what a text is put together from
Pieces == {<<"{">>, <<"{", "{">>, <<"}", "}">>, <<"x">>, <<" ">>,
           Token(KeyDocUrl), Token(KeyFolderUrl)}

Texts == {Flatten(ps) : ps \in UNION {[1..n -> Pieces] : n \in 0..MaxPieces}}

\* values of TaskResult.Outputs and of the placeholders map: links, and text
\* that itself reads as a token
OutputValues == {DocLink, FolderLink, Token(KeyFolderUrl)}

\* the maps that hold at most one of the keys
OutputMaps(keys) == {<<>>} \cup UNION {[{k} -> OutputValues] : k \in keys}

\* Params of an ActionSpec that carry the text t: nil, a flat map, a map with
\* a nested map and a nested list, a map[string]string inside a map
ParamShapes(t) ==
    << NilParams,
       Map("title" :> Str(t)),
       Map("content" :> Map("text" :> Str(t) @@ "pinned" :> Flag)
           @@ "targets" :> List(<<Str(t), Flag, List(<<Str(Token(KeyDocUrl))>>)>>)),
       Map("labels" :> StrMap("a" :> t @@ "b" :> Token(KeyFolderUrl))) >>

\* the placeholders map that holds the outputs a and then the outputs b
Placeholders(a, b) ==
    [k \in DOMAIN a \cup DOMAIN b |-> IF k \in DOMAIN b THEN b[k] ELSE a[k]]

NoSub == [pc |-> "off", text |-> <<>>, deps |-> <<>>, store |-> <<>>,
          spec |-> [Type |-> "nil", Params |-> NilParams],
          once |-> [Type |-> "nil", Params |-> NilParams],
          twice |-> [Type |-> "nil", Params |-> NilParams],
          rOnce |-> <<>>, rTwice |-> <<>>]

\* text: the task input; deps: depResults, the results of two tasks;
\* spec: an action whose Params carry the text; store: the placeholders map
SubInput(t, d, e, shape) ==
    [NoSub EXCEPT !.pc = "input", !.text = t,
                  !.deps = <<[NoResult EXCEPT !.TaskID = 1, !.Outputs = d],
                             [NoResult EXCEPT !.TaskID = 2, !.Outputs = e]>>,
                  !.store = Placeholders(d, e),
                  !.spec = [Type |-> "feishu_send_im", Params |-> ParamShapes(t)[shape]]]

\* ------------------------------------------- ASRService.Process: its data
KeyDocId == <<"doc_id">>
KeyFolderId == <<"folder_id">>
KeyLastNote == <<"last_note">>
OtherDocLink == <<"https://d/docx/3">>

\* what executor.Execute can return without an error, by spec.Type; URL, ID
\* and Note are strings, <<>> the empty one
Summaries(type) ==
    CASE type = "feishu_create_doc" ->
            {[Type |-> "feishu_doc", URL |-> DocLink, ID |-> <<"1">>, Note |-> <<>>],
             [Type |-> "feishu_doc", URL |-> OtherDocLink, ID |-> <<"3">>, Note |-> <<"note ", "x">>],
             [Type |-> "feishu_doc", URL |-> <<>>, ID |-> <<"1">>, Note |-> <<>>]}
      [] type = "feishu_create_folder" ->
            {[Type |-> "feishu_folder", URL |-> FolderLink, ID |-> <<"2">>, Note |-> <<"note ", "x">>],
             [Type |-> "feishu_folder", URL |-> <<>>, ID |-> <<>>, Note |-> <<>>]}
      [] type = "feishu_send_im" ->
            {[Type |-> "feishu_im", URL |-> <<"https://d/messenger/4">>, ID |-> <<>>, Note |-> <<>>]}
      [] OTHER -> {}

\* llmOut.Actions: each action carries one text in its Params
ActionTypes == {"feishu_create_doc", "feishu_create_folder", "feishu_send_im"}
ActionTexts == {Token(KeyDocUrl), Token(KeyFolderUrl), Token(KeyLastUrl)}
ActionSpecs == {[Type |-> ty, Params |-> Map("text" :> Str(t))] : ty \in ActionTypes, t \in ActionTexts}
ActionLists == UNION {[1..n -> ActionSpecs] : n \in 0..MaxActions}

\* mutant of updatePlaceholders: last_url is not kept
updatePlaceholdersNoLast(m, actionType, summary) ==
    CASE actionType = "feishu_create_doc" /\ summary.URL # <<>> -> MapSet(m, KeyDocUrl, summary.URL)
      [] actionType = "feishu_create_folder" /\ summary.URL # <<>> -> MapSet(m, KeyFolderUrl, summary.URL)
      [] OTHER -> m

\* mutant of SetIfNotEmpty: the value is written, empty or not
SetAlways(m, key, value) == MapSet(m, key, value)

\* mutant of SetIfNotEmpty: a key that is set keeps its value
SetIfAbsent(m, key, value) == IF value # <<>> /\ key \notin DOMAIN m THEN MapSet(m, key, value) ELSE m

\* m[key] = value if the value is not empty
SetIfNotEmpty(m, key, value) == IF value # <<>> THEN MapSet(m, key, value) ELSE m

updatePlaceholders(m, actionType, summary) ==
    CASE actionType = "feishu_create_doc" ->
            SetIfNotEmpty(
                SetIfNotEmpty(
                    SetIfNotEmpty(SetIfNotEmpty(m, KeyDocUrl, summary.URL), KeyLastUrl, summary.URL),
                    KeyDocId, summary.ID),
                KeyLastNote, summary.Note)
      [] actionType = "feishu_create_folder" ->
            SetIfNotEmpty(
                SetIfNotEmpty(
                    SetIfNotEmpty(SetIfNotEmpty(m, KeyFolderUrl, summary.URL), KeyLastUrl, summary.URL),
                    KeyFolderId, summary.ID),
                KeyLastNote, summary.Note)
      [] OTHER -> m

NoResponse == [Success |-> FALSE, Actions |-> <<>>, Message |-> "nil"]

\* pc: position of ASRService.Process; actions: llmOut.Actions; i: index of
\* the action the loop is at; calls: history, the specs handed to Execute
NoAsr == [pc |-> "off", actions |-> <<>>, i |-> 0, placeholders |-> <<>>,
          summaries |-> <<>>, calls |-> <<>>, resp |-> NoResponse, err |-> NoError]

\* ------------------------------------------------ ParseSendMessageParams
\* the zero value of SendMessageParams; "" is the empty string, <<>> the nil slice
ZeroContent == [Text |-> "", Title |-> "", URL |-> "", Description |-> ""]
ZeroParams == [Platform |-> "", MessageType |-> "", Content |-> ZeroContent,
               TargetType |-> "", Targets |-> <<>>]

\* v, ok := m[key].(string): the string if the entry is there and is a string
StringOr(m, key, zero) ==
    IF key \in DOMAIN m /\ m[key].kind = "string" THEN m[key].v ELSE zero

\* mutant of the targets loop: an element that is no string is appended as ""
RECURSIVE AppendAll(_)
AppendAll(items) ==
    IF items = <<>> THEN <<>>
    ELSE <<IF Head(items).kind = "string" THEN Head(items).v ELSE "">> \o AppendAll(Tail(items))

\* for _, t := range targets { if s, ok := t.(string); ok { append } }
RECURSIVE AppendStrings(_)
AppendStrings(items) ==
    IF items = <<>> THEN <<>>
    ELSE (IF Head(items).kind = "string" THEN <<Head(items).v>> ELSE <<>>)
             \o AppendStrings(Tail(items))

ParseTargets(params) ==
    IF "targets" \in DOMAIN params /\ params["targets"].kind = "[]any"
    THEN AppendStrings(params["targets"].v) ELSE <<>>

ParseContent(params) ==
    IF "content" \in DOMAIN params /\ params["content"].kind = "map[string]any"
    THEN [Text |-> StringOr(params["content"].v, "text", ""),
          Title |-> StringOr(params["content"].v, "title", ""),
          URL |-> StringOr(params["content"].v, "url", ""),
          Description |-> StringOr(params["content"].v, "description", "")]
    ELSE ZeroContent

\* mutant of ParseSendMessageParams: every element of targets is taken
ParseSendMessageParamsAllTargets(params) ==
    [Platform |-> StringOr(params, "platform", ""),
     MessageType |-> StringOr(params, "message_type", ""),
     Content |-> ParseContent(params),
     TargetType |-> StringOr(params, "target_type", ""),
     Targets |-> IF "targets" \in DOMAIN params /\ params["targets"].kind = "[]any"
                 THEN AppendAll(params["targets"].v) ELSE <<>>]

ParseSendMessageParams(params) ==
    [Platform |-> StringOr(params, "platform", ""),
     MessageType |-> StringOr(params, "message_type", ""),
     Content |-> ParseContent(params),
     TargetType |-> StringOr(params, "target_type", ""),
     Targets |-> ParseTargets(params)]

\* the maps over some of the keys, each entry one of the values
MapsOver(keys, values) == UNION {[K -> values] : K \in SUBSET keys}

\* the params maps the function is applied to: every entry absent, a string
\* or a value of another type; targets a list of strings and other values
\* (or no list), content a map of strings and other values (or no map)
TargetLists == UNION {[1..n -> {Str("u1"), Str("u2"), Flag}] : n \in 0..MaxTargets}
ContentMaps == MapsOver({"text", "title", "url", "description"}, {Str("c"), Flag})
ScalarMaps == MapsOver({"platform", "message_type", "target_type"}, {Str("s"), Flag})
TargetsEntry(which, l) ==
    CASE which = "[]any" -> "targets" :> List(l)
      [] which = "string" -> "targets" :> Str("u1")
      [] OTHER -> <<>>
ContentEntry(which, c) ==
    CASE which = "map[string]any" -> "content" :> Map(c)
      [] which = "map[string]string" -> "content" :> StrMap("text" :> "c")
      [] which = "string" -> "content" :> Str("c")
      [] OTHER -> <<>>
TargetsKinds == {"absent", "string", "[]any"}
ContentKinds == {"absent", "string", "map[string]any", "map[string]string"}

NoParse == [pc |-> "off", params |-> <<>>, result |-> ZeroParams]

\* ------------------------------------------------- executeTask: its data
SkillSendMessage == "send_message"

\* the tasks executeTask is called with: Input and Platform are texts
ExecInputs == {<<"x">>, Token(KeyDocUrl), Token(KeyDocUrl) \o <<" ">> \o Token(KeyFolderUrl)}
ExecPlatforms == {<<"feishu">>, <<>>, Token(KeyDocUrl)}
ExecTasks == [ID : {1}, Skill : skillPrompts \cup PlanSkills, Input : ExecInputs,
              Platform : ExecPlatforms]

\* the Params of the action the resolver replies with: null, an object
\* without "platform", an object with "platform"
ReplyParams == << NilParams,
                  Map("content" :> Str(<<"x">>)),
                  Map("content" :> Str(<<"x">>) @@ "platform" :> Str(<<"slack">>)) >>

\* TaskResult of executeTask: Action is an ActionSpec here, with its Params
NoActionSpec == [Type |-> "nil", Params |-> NilParams]
NoExecResult == [TaskID |-> 0, Action |-> NoActionSpec, Error |-> NoError, Outputs |-> <<>>]

\* mutant of the platform fill: the tokens of the platform are replaced too
FillPlatformResolved(task, action) ==
    IF /\ task.Skill = SkillSendMessage
       /\ action.Params # NilParams
       /\ "platform" \notin DOMAIN action.Params.v
    THEN [action EXCEPT !.Params =
             Map(action.Params.v @@ "platform" :>
                 Str(resolvePlaceholders(task.Platform, CHOOSE visit \in Visits(ex.deps) : TRUE)))]
    ELSE action

\* mutant of the platform fill: a platform of the reply is overwritten
FillPlatformOverwrite(task, action) ==
    IF task.Skill = SkillSendMessage /\ action.Params # NilParams
    THEN [action EXCEPT !.Params =
             Map([k \in DOMAIN action.Params.v \cup {"platform"} |->
                     IF k = "platform" THEN Str(task.Platform) ELSE action.Params.v[k]])]
    ELSE action

\* if task.Skill == SkillSendMessage && action.Params != nil { if no "platform" { set it } }
FillPlatform(task, action) ==
    IF /\ task.Skill = SkillSendMessage
       /\ action.Params # NilParams
       /\ "platform" \notin DOMAIN action.Params.v
    THEN [action EXCEPT !.Params = Map(action.Params.v @@ "platform" :> Str(task.Platform))]
    ELSE action

\* pc: position of executeTask; input: the text handed to client.Chat;
\* reply: history, the Params of the action as parsed from the reply
NoExec == [pc |-> "off", task |-> [ID |-> 0, Skill |-> "nil", Input |-> <<>>, Platform |-> <<>>],
           deps |-> <<>>, input |-> <<>>, reply |-> NilParams, result |-> NoExecResult]

\* ---------------------------------------------------------------- Init
\* Service.Process has not been entered.
ProcessInit ==
    /\ tasks = <<>>
    /\ pc = "plan"
    /\ pending = <<>>
    /\ results = <<>>
    /\ ready = <<>>
    /\ tpc = [id \in TaskIds |-> "idle"]
    /\ res = [id \in TaskIds |-> NoResult]
    /\ mu = Free
    /\ wave = 0
    /\ out = NoOutput
    /\ err = NilError
    /\ crashed = FALSE
    /\ executed = [i \in 1..MaxTasks |-> 0]
    /\ waveOf = [id \in TaskIds |-> 0]

Init == ProcessInit /\ sub = NoSub /\ asr = NoAsr /\ prs = NoParse /\ ex = NoExec

\* ------------------------------------------------------------- Process
\* variant: the planning error is set but the scheduler runs on a plan all the same
PlanFailsScheduled ==
    /\ pc = "plan" /\ ~crashed
    /\ \E plan \in Plans :
         /\ Len(plan) > 0
         /\ tasks' = plan
         /\ pending' = BuildPending(plan)
    /\ pc' = "loop"
    /\ err' = PlanError
    /\ UNCHANGED <<sub, asr, prs, ex, results, ready, tpc, res, mu, wave, out, crashed, executed, waveOf>>

\* planTasks fails (Chat error or unparsable plan): Process returns the error
PlanFails ==
    /\ pc = "plan" /\ ~crashed
    /\ pc' = "done"
    /\ err' = PlanError
    /\ UNCHANGED <<sub, asr, prs, ex, tasks, pending, results, ready, tpc, res, mu, wave, out, crashed, executed, waveOf>>

\* variant: the empty plan is handed to the scheduler, which finds nothing ready
PlanEmptyScheduled ==
    /\ pc = "plan" /\ ~crashed
    /\ tasks' = <<>>
    /\ pc' = "done"
    /\ err' = DeadlockError
    /\ UNCHANGED <<sub, asr, prs, ex, pending, results, ready, tpc, res, mu, wave, out, crashed, executed, waveOf>>

\* planTasks returns a plan without tasks: Process replies without scheduling
PlanEmpty ==
    /\ pc = "plan" /\ ~crashed
    /\ tasks' = <<>>
    /\ pc' = "done"
    /\ out' = [Intent |-> PlanSummary, Actions |-> <<>>, Reply |-> NoTasksReply]
    /\ UNCHANGED <<sub, asr, prs, ex, pending, results, ready, tpc, res, mu, wave, err, crashed, executed, waveOf>>

\* planTasks returns a plan with tasks: executeTasks builds pending
PlanOk ==
    /\ pc = "plan" /\ ~crashed
    /\ \E plan \in Plans :
         /\ Len(plan) > 0
         /\ tasks' = plan
         /\ pending' = BuildPending(plan)
    /\ pc' = "loop"
    /\ UNCHANGED <<sub, asr, prs, ex, results, ready, tpc, res, mu, wave, out, err, crashed, executed, waveOf>>

\* ------------------------------------------------------- executeTasks
\* len(pending) = 0: executeTasks returns (results, nil), Process builds the output
ReturnOk ==
    /\ pc = "loop" /\ ~crashed
    /\ DOMAIN pending = {}
    /\ out' = buildOutput(tasks, results)
    /\ pc' = "done"
    /\ UNCHANGED <<sub, asr, prs, ex, tasks, pending, results, ready, tpc, res, mu, wave, err, crashed, executed, waveOf>>

\* len(ready) = 0: executeTasks returns the no-progress error, Process returns (nil, err)
ReturnDeadlock ==
    /\ pc = "loop" /\ ~crashed
    /\ DOMAIN pending # {}
    /\ ReadySet(pending, results) = {}
    /\ err' = DeadlockError
    /\ ready' = <<>>
    /\ pc' = "done"
    /\ UNCHANGED <<sub, asr, prs, ex, tasks, pending, results, tpc, res, mu, wave, out, crashed, executed, waveOf>>

\* a wave: ready is collected in map order and one goroutine is started per entry
Dispatch ==
    /\ pc = "loop" /\ ~crashed
    /\ DOMAIN pending # {}
    /\ ReadySet(pending, results) # {}
    /\ \E order \in Orders(ReadySet(pending, results)) :
         /\ ready' = order
         /\ tpc' = [id \in TaskIds |-> IF id \in Range(order) THEN "start" ELSE tpc[id]]
         /\ waveOf' = [id \in TaskIds |-> IF id \in Range(order) THEN wave + 1 ELSE waveOf[id]]
    /\ wave' = wave + 1
    /\ pc' = "wait"
    /\ UNCHANGED <<sub, asr, prs, ex, tasks, pending, results, res, mu, out, err, crashed, executed>>

\* wg.Wait() returned and no result of the wave carries an error: next iteration
WaveOk ==
    /\ pc = "wait" /\ ~crashed
    /\ WaveDone(ready, tpc)
    /\ FailedInWave(ready, results) = {}
    /\ pc' = "loop"
    /\ UNCHANGED <<sub, asr, prs, ex, tasks, pending, results, ready, tpc, res, mu, wave, out, err, crashed, executed, waveOf>>

\* variant: the tasks of a failed wave are put back into pending and run again
WaveFailedRetry ==
    /\ pc = "wait" /\ ~crashed
    /\ WaveDone(ready, tpc)
    /\ FailedInWave(ready, results) # {}
    /\ pending' = [id \in DOMAIN pending \cup {ready[i] : i \in FailedInWave(ready, results)} |->
                      IF id \in DOMAIN pending THEN pending[id]
                      ELSE Max({i \in DOMAIN tasks : tasks[i].ID = id})]
    /\ results' = [id \in DOMAIN results \ {ready[i] : i \in FailedInWave(ready, results)} |-> results[id]]
    /\ pc' = "loop"
    /\ UNCHANGED <<sub, asr, prs, ex, tasks, ready, tpc, res, mu, wave, out, err, crashed, executed, waveOf>>

\* variant: a failed wave does not return, the loop goes on
WaveFailedGoesOn ==
    /\ pc = "wait" /\ ~crashed
    /\ WaveDone(ready, tpc)
    /\ FailedInWave(ready, results) # {}
    /\ pc' = "loop"
    /\ UNCHANGED <<sub, asr, prs, ex, tasks, pending, results, ready, tpc, res, mu, wave, out, err, crashed, executed, waveOf>>

\* wg.Wait() returned and a result of the wave carries an error:
\* executeTasks returns that error, Process returns (nil, err)
WaveFailed ==
    /\ pc = "wait" /\ ~crashed
    /\ WaveDone(ready, tpc)
    /\ FailedInWave(ready, results) # {}
    /\ err' = TaskError(FirstFailed(ready, results), results[FirstFailed(ready, results)].Error)
    /\ pc' = "done"
    /\ UNCHANGED <<sub, asr, prs, ex, tasks, pending, results, ready, tpc, res, mu, wave, out, crashed, executed, waveOf>>

\* ---------------------------------------------- goroutine of one task
\* variant: the skill is not looked up, every task goes on to the Chat call
BeginWithoutLookup(id) ==
    /\ tpc[id] = "start" /\ ~crashed
    /\ executed' = [executed EXCEPT ![pending[id]] = @ + 1]
    /\ tpc' = [tpc EXCEPT ![id] = "resolve"]
    /\ res' = [res EXCEPT ![id] = [NoResult EXCEPT !.TaskID = id]]
    /\ UNCHANGED <<sub, asr, prs, ex, tasks, pc, pending, results, ready, mu, wave, out, err, crashed, waveOf>>

\* executeTask starts: look up the skill prompt
Begin(id) ==
    /\ tpc[id] = "start" /\ ~crashed
    /\ executed' = [executed EXCEPT ![pending[id]] = @ + 1]
    /\ IF tasks[pending[id]].Skill \in skillPrompts
       THEN /\ tpc' = [tpc EXCEPT ![id] = "resolve"]
            /\ res' = [res EXCEPT ![id] = [NoResult EXCEPT !.TaskID = id]]
       ELSE /\ tpc' = [tpc EXCEPT ![id] = "lock"]
            /\ res' = [res EXCEPT ![id] = [NoResult EXCEPT !.TaskID = id, !.Error = "unknown_skill"]]
    /\ UNCHANGED <<sub, asr, prs, ex, tasks, pc, pending, results, ready, mu, wave, out, err, crashed, waveOf>>

\* resolvePlaceholders has ranged over results (without holding mu)
EndResolve(id) ==
    /\ tpc[id] = "resolve" /\ ~crashed
    /\ tpc' = [tpc EXCEPT ![id] = "chat"]
    /\ UNCHANGED <<sub, asr, prs, ex, tasks, pc, pending, results, ready, res, mu, wave, out, err, crashed, executed, waveOf>>

\* variant: a reply that cannot be parsed leaves both an action and an error
ChatReturnBoth(id) ==
    /\ tpc[id] = "chat" /\ ~crashed
    /\ \E reply \in {"ok", "chat_failed", "parse_failed"} :
         res' = [res EXCEPT ![id] =
                   IF reply = "chat_failed"
                   THEN [@ EXCEPT !.Error = reply]
                   ELSE [@ EXCEPT !.Action = [type |-> ActionType(tasks[pending[id]].Skill),
                                              by |-> pending[id]],
                                  !.Error = IF reply = "ok" THEN NoError ELSE reply]]
    /\ tpc' = [tpc EXCEPT ![id] = "lock"]
    /\ UNCHANGED <<sub, asr, prs, ex, tasks, pc, pending, results, ready, mu, wave, out, err, crashed, executed, waveOf>>

\* client.Chat returns: an error, an unparsable reply, or an action
ChatReturn(id) ==
    /\ tpc[id] = "chat" /\ ~crashed
    /\ \E reply \in {"ok", "chat_failed", "parse_failed"} :
         res' = [res EXCEPT ![id] =
                   IF reply = "ok"
                   THEN [@ EXCEPT !.Action = [type |-> ActionType(tasks[pending[id]].Skill),
                                              by |-> pending[id]]]
                   ELSE [@ EXCEPT !.Error = reply]]
    /\ tpc' = [tpc EXCEPT ![id] = "lock"]
    /\ UNCHANGED <<sub, asr, prs, ex, tasks, pc, pending, results, ready, mu, wave, out, err, crashed, executed, waveOf>>

\* mu.Lock()
Lock(id) ==
    /\ tpc[id] = "lock" /\ ~crashed
    /\ mu = Free
    /\ mu' = id
    /\ tpc' = [tpc EXCEPT ![id] = "locked"]
    /\ UNCHANGED <<sub, asr, prs, ex, tasks, pc, pending, results, ready, res, wave, out, err, crashed, executed, waveOf>>

\* results[t.ID] = result; delete(pending, t.ID); mu.Unlock(); wg.Done()
Record(id) ==
    /\ tpc[id] = "locked" /\ ~crashed
    /\ results' = MapSet(results, id, res[id])
    /\ pending' = MapDelete(pending, id)
    /\ mu' = Free
    /\ tpc' = [tpc EXCEPT ![id] = "done"]
    /\ UNCHANGED <<sub, asr, prs, ex, tasks, pc, ready, res, wave, out, err, crashed, executed, waveOf>>

\* one goroutine ranges over results while another assigns to it: the Go
\* runtime may detect it ("concurrent map iteration and map write") and abort
RaceAbort ==
    /\ ~crashed
    /\ \E a \in TaskIds, b \in TaskIds : tpc[a] = "resolve" /\ tpc[b] = "locked"
    /\ crashed' = TRUE
    /\ UNCHANGED <<sub, asr, prs, ex, tasks, pc, pending, results, ready, tpc, res, mu, wave, out, err, executed, waveOf>>

Next ==
    \/ PlanFails
    \/ PlanEmpty
    \/ PlanOk
    \/ ReturnOk
    \/ ReturnDeadlock
    \/ Dispatch
    \/ WaveOk
    \/ WaveFailed
    \/ \E id \in TaskIds : Begin(id)
    \/ \E id \in TaskIds : EndResolve(id)
    \/ \E id \in TaskIds : ChatReturn(id)
    \/ \E id \in TaskIds : Lock(id)
    \/ \E id \in TaskIds : Record(id)
    \/ RaceAbort

Spec == Init /\ [][Next]_vars

\* every step but the runtime's abort: the Go scheduler runs every runnable
\* goroutine and every Chat call returns
Progress ==
    \/ PlanFails \/ PlanEmpty \/ PlanOk \/ ReturnOk \/ ReturnDeadlock
    \/ Dispatch \/ WaveOk \/ WaveFailed
    \/ \E id \in TaskIds : Begin(id) \/ EndResolve(id) \/ ChatReturn(id) \/ Lock(id) \/ Record(id)

FairSpec == Spec /\ WF_vars(Progress)

\* ------------------------------------------- substitution, applied twice
SubstInit ==
    /\ ProcessInit
    /\ asr = NoAsr
    /\ prs = NoParse
    /\ ex = NoExec
    /\ \E t \in Texts, d \in OutputMaps({KeyDocUrl}),
          e \in OutputMaps({KeyDocUrl, KeyFolderUrl}), shape \in DOMAIN ParamShapes(<<>>) :
          sub = SubInput(t, d, e, shape)

\* the substitution is applied to the input
ApplyOnce ==
    /\ sub.pc = "input"
    /\ \E visit \in Visits(sub.deps) :
          sub' = [sub EXCEPT !.pc = "once",
                             !.once = applyPlaceholders(sub.spec, sub.store),
                             !.rOnce = resolvePlaceholders(sub.text, visit)]
    /\ UNCHANGED <<llmVars, asr, prs, ex>>

\* the substitution is applied to its own result, the store unchanged
ApplyTwice ==
    /\ sub.pc = "once"
    /\ \E visit \in Visits(sub.deps) :
          sub' = [sub EXCEPT !.pc = "twice",
                             !.twice = applyPlaceholders(sub.once, sub.store),
                             !.rTwice = resolvePlaceholders(sub.rOnce, visit)]
    /\ UNCHANGED <<llmVars, asr, prs, ex>>

SubstNext == ApplyOnce \/ ApplyTwice

SubstSpec == SubstInit /\ [][SubstNext]_vars

\* ------------------------------------------------- ASRService.Process
AsrInit ==
    /\ ProcessInit
    /\ sub = NoSub
    /\ prs = NoParse
    /\ ex = NoExec
    /\ asr = [NoAsr EXCEPT !.pc = "llm"]

\* s.llm.Process returns an error
LlmFails ==
    /\ asr.pc = "llm"
    /\ asr' = [asr EXCEPT !.pc = "done", !.err = "llm_failed",
                          !.resp = [NoResponse EXCEPT !.Message = "llm_failed"]]
    /\ UNCHANGED <<llmVars, sub, prs, ex>>

\* s.llm.Process returns actions; the placeholders map is made
LlmReturns ==
    /\ asr.pc = "llm"
    /\ \E actions \in ActionLists :
          asr' = [asr EXCEPT !.pc = "loop", !.actions = actions, !.i = 1]
    /\ UNCHANGED <<llmVars, sub, prs, ex>>

\* one turn of the loop, Execute returns a summary
ExecuteOk ==
    /\ asr.pc = "loop"
    /\ asr.i <= Len(asr.actions)
    /\ LET spec == applyPlaceholders(asr.actions[asr.i], asr.placeholders) IN
       \E summary \in Summaries(spec.Type) :
          asr' = [asr EXCEPT !.calls = Append(@, spec),
                             !.summaries = Append(@, summary),
                             !.placeholders = updatePlaceholders(@, spec.Type, summary),
                             !.i = @ + 1]
    /\ UNCHANGED <<llmVars, sub, prs, ex>>

\* mutant of the error return: the loop goes on with the next action
ExecuteFailsContinue ==
    /\ asr.pc = "loop"
    /\ asr.i <= Len(asr.actions)
    /\ LET spec == applyPlaceholders(asr.actions[asr.i], asr.placeholders) IN
          asr' = [asr EXCEPT !.calls = Append(@, spec), !.i = @ + 1]
    /\ UNCHANGED <<llmVars, sub, prs, ex>>

\* one turn of the loop, Execute returns an error
ExecuteFails ==
    /\ asr.pc = "loop"
    /\ asr.i <= Len(asr.actions)
    /\ LET spec == applyPlaceholders(asr.actions[asr.i], asr.placeholders) IN
          asr' = [asr EXCEPT !.pc = "done", !.calls = Append(@, spec), !.err = "execute_failed",
                             !.resp = [Success |-> FALSE, Actions |-> asr.summaries,
                                       Message |-> "execute_failed"]]
    /\ UNCHANGED <<llmVars, sub, prs, ex>>

\* the loop is over
AsrReturn ==
    /\ asr.pc = "loop"
    /\ asr.i > Len(asr.actions)
    /\ asr' = [asr EXCEPT !.pc = "done",
                          !.resp = [Success |-> TRUE, Actions |-> asr.summaries, Message |-> "ok"]]
    /\ UNCHANGED <<llmVars, sub, prs, ex>>

AsrNext == LlmFails \/ LlmReturns \/ ExecuteOk \/ ExecuteFails \/ AsrReturn

AsrSpec == AsrInit /\ [][AsrNext]_vars

\* ------------------------------------------------ ParseSendMessageParams
ParseInit ==
    /\ ProcessInit
    /\ sub = NoSub
    /\ asr = NoAsr
    /\ ex = NoExec
    /\ \E s \in ScalarMaps, tk \in TargetsKinds, l \in TargetLists,
          ck \in ContentKinds, c \in ContentMaps :
          prs = [NoParse EXCEPT !.pc = "call",
                                !.params = s @@ TargetsEntry(tk, l) @@ ContentEntry(ck, c)]

Parse ==
    /\ prs.pc = "call"
    /\ prs' = [prs EXCEPT !.pc = "returned", !.result = ParseSendMessageParams(prs.params)]
    /\ UNCHANGED <<llmVars, sub, asr, ex>>

ParseNext == Parse

ParseSpec == ParseInit /\ [][ParseNext]_vars

\* ------------------------------------------------------------ executeTask
ExecInit ==
    /\ ProcessInit
    /\ sub = NoSub
    /\ asr = NoAsr
    /\ prs = NoParse
    /\ \E task \in ExecTasks, d \in OutputMaps({KeyDocUrl}),
          e \in OutputMaps({KeyDocUrl, KeyFolderUrl}) :
          ex = [NoExec EXCEPT !.pc = "call", !.task = task,
                              !.deps = <<[NoResult EXCEPT !.TaskID = 2, !.Outputs = d],
                                         [NoResult EXCEPT !.TaskID = 3, !.Outputs = e]>>]

\* the skill has no prompt: the result carries the error
ExecUnknownSkill ==
    /\ ex.pc = "call"
    /\ ex.task.Skill \notin skillPrompts
    /\ ex' = [ex EXCEPT !.pc = "returned",
                        !.result = [NoExecResult EXCEPT !.TaskID = ex.task.ID,
                                                        !.Error = "unknown_skill"]]
    /\ UNCHANGED <<llmVars, sub, asr, prs>>

\* the skill has a prompt: resolvePlaceholders(task.Input, depResults)
ExecResolve ==
    /\ ex.pc = "call"
    /\ ex.task.Skill \in skillPrompts
    /\ \E visit \in Visits(ex.deps) :
          ex' = [ex EXCEPT !.pc = "chat",
                           !.input = resolvePlaceholders(ex.task.Input, visit),
                           !.result = [NoExecResult EXCEPT !.TaskID = ex.task.ID]]
    /\ UNCHANGED <<llmVars, sub, asr, prs>>

\* client.Chat(ctx, prompt, input) fails, or its reply is no JSON of an action
ExecChatFails ==
    /\ ex.pc = "chat"
    /\ \E cause \in {"chat_failed", "parse_failed"} :
          ex' = [ex EXCEPT !.pc = "returned", !.result.Error = cause]
    /\ UNCHANGED <<llmVars, sub, asr, prs>>

\* variant of ExecChatOk: the result carries the URL of a document as output
ExecChatOkWithOutputs ==
    /\ ex.pc = "chat"
    /\ \E i \in DOMAIN ReplyParams :
          ex' = [ex EXCEPT !.pc = "returned",
                           !.result.Outputs = (KeyDocUrl :> DocLink),
                           !.reply = ReplyParams[i],
                           !.result.Action =
                               FillPlatform(ex.task, [Type |-> ActionType(ex.task.Skill),
                                                      Params |-> ReplyParams[i]])]
    /\ UNCHANGED <<llmVars, sub, asr, prs>>

\* the reply is an action: the platform is filled in, the action is kept
ExecChatOk ==
    /\ ex.pc = "chat"
    /\ \E i \in DOMAIN ReplyParams :
          ex' = [ex EXCEPT !.pc = "returned",
                           !.reply = ReplyParams[i],
                           !.result.Action =
                               FillPlatform(ex.task, [Type |-> ActionType(ex.task.Skill),
                                                      Params |-> ReplyParams[i]])]
    /\ UNCHANGED <<llmVars, sub, asr, prs>>

ExecNext == ExecUnknownSkill \/ ExecResolve \/ ExecChatFails \/ ExecChatOk

ExecSpec == ExecInit /\ [][ExecNext]_vars

\* ------------------------- executeTask, called for one task after another
\* the tasks of a plan as executeTasks hands them to executeTask
SeqTasks == {t \in ExecTasks : t.Platform = <<"feishu">>}

\* results is empty when the first task is executed
SeqInit ==
    /\ ProcessInit
    /\ sub = NoSub
    /\ asr = NoAsr
    /\ prs = NoParse
    /\ \E task \in SeqTasks : ex = [NoExec EXCEPT !.pc = "call", !.task = task]

\* results[t.ID] = result, and executeTask is called for a further task of
\* the plan with the results recorded so far
ExecRecord ==
    /\ ex.pc = "returned"
    /\ Len(ex.deps) + 1 < MaxTasks
    /\ \E task \in SeqTasks :
          ex' = [NoExec EXCEPT !.pc = "call",
                               !.task = [task EXCEPT !.ID = Len(ex.deps) + 2],
                               !.deps = Append(ex.deps, ex.result)]
    /\ UNCHANGED <<llmVars, sub, asr, prs>>

SeqNext == ExecUnknownSkill \/ ExecResolve \/ ExecChatFails \/ ExecChatOk \/ ExecRecord

SeqSpec == SeqInit /\ [][SeqNext]_vars


\* ====================================================================
\* Vocabulary of the properties
\* ====================================================================
PlanIds == {tasks[i].ID : i \in DOMAIN tasks}

\* the task scheduled under an id (the last one listed with it)
Scheduled(id) == tasks[Max({i \in DOMAIN tasks : tasks[i].ID = id})]
DepsOf(id) == Scheduled(id).DependsOn

Recorded(id) == id \in DOMAIN results
Succeeded(id) == id \in DOMAIN results /\ results[id].Error = NoError
Failed(id) == id \in DOMAIN results /\ results[id].Error # NoError
Started(id) == tpc[id] # "idle"
InFlight(id) == tpc[id] \notin {"idle", "done"}

UniqueIds == \A i \in DOMAIN tasks, j \in DOMAIN tasks : tasks[i].ID = tasks[j].ID => i = j
Dangling == \E i \in DOMAIN tasks : ~(tasks[i].DependsOn \subseteq PlanIds)

\* ids reachable from S along at most n dependency edges
RECURSIVE Reach(_, _)
Reach(S, n) ==
    IF n = 0 THEN S
    ELSE Reach(S \cup UNION {DepsOf(x) : x \in S \cap PlanIds}, n - 1)

OnCycle(id) == id \in PlanIds /\ id \in Reach(DepsOf(id), Len(tasks))
HasCycle == \E id \in PlanIds : OnCycle(id)
WellFormedPlan == Len(tasks) > 0 /\ UniqueIds /\ ~Dangling /\ ~HasCycle

\* ====================================================================
\* C1: for every plan whose dependency graph is acyclic (ids unique, every
\* dependency a task of the plan, no cycle), executeTasks terminates, no
\* task is passed to executeTask twice, and unless a task failed every task
\* has been passed to executeTask exactly once.
\* ====================================================================
C1_AcyclicPlanTerminates ==
    /\ [](\A i \in 1..MaxTasks : executed[i] <= 1)
    /\ (WellFormedPlan /\ pc = "loop")
         ~> (pc = "done" /\ ((\A id \in PlanIds : ~Failed(id))
                                => \A i \in DOMAIN tasks : executed[i] = 1))

\* ====================================================================
\* C2: a task is never started before each of its dependencies has its result
\* in results, and never at all when that result carries an error.
\* ====================================================================
C2_DependencyOrder ==
    \A id \in PlanIds : Started(id) => \A d \in DepsOf(id) : Recorded(d) /\ ~Failed(d)

C2_Witness ==
    \E id \in PlanIds : \E d \in DepsOf(id) : d # id /\ tpc[id] = "start" /\ Succeeded(d)

\* ====================================================================
\* C3: waves are separated by a barrier: when the ready set is computed no
\* goroutine is in flight, every task in flight belongs to the wave started
\* last, and every task of an earlier wave has finished and has its result.
\* ====================================================================
C3_WaveBarrier ==
    /\ pc = "loop" => \A id \in TaskIds : ~InFlight(id)
    /\ \A id \in TaskIds : InFlight(id) => waveOf[id] = wave
    /\ \A id \in TaskIds :
         (Started(id) /\ waveOf[id] < wave) => (tpc[id] = "done" /\ Recorded(id))

C3_Witness ==
    /\ wave = 2
    /\ \E a \in TaskIds, b \in TaskIds :
         InFlight(a) /\ waveOf[b] = 1 /\ tpc[b] = "done" /\ Recorded(b)

\* ====================================================================
\* C4: once a result of a wave carries an error no further wave is started,
\* and what executeTasks then returns is the failure of a task of that wave
\* whose result carries an error, wrapping that error.
\* ====================================================================
C4_FailFast ==
    /\ \A id \in TaskIds : Failed(id) => (waveOf[id] = wave /\ pc \in {"wait", "done"})
    /\ (pc = "done" /\ \E id \in TaskIds : Failed(id)) =>
         /\ err.kind = "task"
         /\ Failed(err.id)
         /\ waveOf[err.id] = wave
         /\ err.cause = results[err.id].Error

C4_Witness ==
    /\ pc = "done" /\ err.kind = "task"
    /\ \E id \in PlanIds : ~Started(id) /\ id \in DOMAIN pending

\* ====================================================================
\* C5: when the plan execution fails, the caller of Process receives with
\* the error the action of every task that had completed successfully.
\* ====================================================================
C5_PartialActionsReturned ==
    (pc = "done" /\ err.kind \in {"task", "deadlock"}) =>
        \A id \in TaskIds : Succeeded(id) =>
            \E k \in DOMAIN out.Actions : out.Actions[k] = results[id].Action

C7_DanglingRejectedBeforeDispatch ==
    Dangling => \A id \in TaskIds : ~Started(id)

\* ====================================================================
\* C8: the tasks a wave dispatches are exactly the pending tasks all of
\* whose dependencies have a result without error; in the first wave these
\* include every task with an empty DependsOn.
\* ====================================================================
C8_DispatchExactlyReady ==
    [][(pc = "loop" /\ pc' = "wait") =>
          /\ \A id \in TaskIds :
               (tpc'[id] = "start") <=>
                   (id \in DOMAIN pending /\
                    \A d \in tasks[pending[id]].DependsOn : Succeeded(d))
          /\ wave = 0 => \A id \in PlanIds : DepsOf(id) = {} => tpc'[id] = "start"]_vars

C8_Witness ==
    /\ pc = "wait" /\ wave = 1
    /\ \E a \in PlanIds, b \in PlanIds :
         tpc[a] = "start" /\ DepsOf(a) = {} /\ ~Started(b) /\ DepsOf(b) = {a}

\* ====================================================================
\* C9: when all tasks succeed the output holds exactly one action per task,
\* the i-th action being the one resolved for the i-th task of the plan,
\* whatever wave each task ran in.
\* ====================================================================
C9_ActionsInPlanOrder ==
    (pc = "done" /\ err = NilError /\ Len(tasks) > 0
        /\ \A i \in DOMAIN tasks : executed[i] = 1) =>
        /\ Len(out.Actions) = Len(tasks)
        /\ \A i \in DOMAIN tasks : out.Actions[i].by = i

C9_Witness ==
    /\ pc = "done" /\ err = NilError /\ Len(tasks) = 2
    /\ waveOf[tasks[1].ID] = 2 /\ waveOf[tasks[2].ID] = 1
    /\ Len(out.Actions) = 2 /\ out.Actions[1].by = 1

\* ====================================================================
\* C10: no goroutine reads the shared results map (resolvePlaceholders)
\* while another goroutine of the wave writes its result into it.
\* ====================================================================
C10_ResultsMutualExclusion ==
    \A a \in TaskIds, b \in TaskIds :
        ~(a # b /\ tpc[a] = "resolve" /\ tpc[b] = "locked")

\* a skill-resolution call (client.Chat with a skill prompt) was made for id
ChatCalled(id) ==
    \/ tpc[id] = "chat"
    \/ tpc[id] \in {"lock", "locked", "done"} /\ res[id].Error # "unknown_skill"

\* ====================================================================
\* C11: a plan with zero tasks yields no error: the output carries the
\* plan's summary as Intent and no action, and nothing was scheduled or
\* resolved.
\* ====================================================================
C11_EmptyPlanNoError ==
    (pc = "done" /\ Len(tasks) = 0 /\ err.kind # "plan") =>
        /\ err = NilError
        /\ out # NoOutput
        /\ out.Intent = PlanSummary
        /\ out.Actions = <<>>
        /\ wave = 0
        /\ \A id \in TaskIds : ~Started(id) /\ ~ChatCalled(id)

C11_Witness ==
    pc = "done" /\ Len(tasks) = 0 /\ err = NilError /\ out.Reply = NoTasksReply

\* ====================================================================
\* C12: when executeTasks returns the failure of a task, every task that
\* was dispatched in the failing wave has finished and has its result in
\* results, the ones that were still in flight when the failure was
\* recorded included.
\* ====================================================================
C12_FailingWaveCompletes ==
    (pc = "done" /\ err.kind = "task") =>
        \A id \in TaskIds : (Started(id) /\ waveOf[id] = wave) =>
            (tpc[id] = "done" /\ Recorded(id) /\ results[id] = res[id])

C12_Witness ==
    /\ pc = "done" /\ err.kind = "task"
    /\ \E a \in TaskIds, b \in TaskIds :
         /\ a # b /\ waveOf[a] = wave /\ waveOf[b] = wave
         /\ Failed(a) /\ Succeeded(b) /\ ChatCalled(b)

\* ====================================================================
\* C15: when a task of a later wave has been started, results holds the
\* final result of every task dispatched in an earlier wave.
\* ====================================================================
C15_LaterWaveSeesEarlierResults ==
    \A id \in TaskIds : Started(id) =>
        \A other \in TaskIds : (Started(other) /\ waveOf[other] < waveOf[id]) =>
            (Recorded(other) /\ results[other] = res[other])

C15_Witness ==
    \E id \in TaskIds, other \in TaskIds :
        /\ tpc[id] = "resolve" /\ waveOf[id] = 2
        /\ waveOf[other] = 1 /\ Succeeded(other) /\ results[other].Action # NoAction

\* ====================================================================
\* C16: the scheduling failure that is reported when nothing is ready
\* while tasks are pending carries the set of the pending task ids.
\* ====================================================================
C16_DeadlockNamesStuckTasks ==
    (pc = "done" /\ err.kind = "deadlock") => err.stuck = DOMAIN pending

\* ====================================================================
\* C20: when the planning call fails or its reply is no plan, Process
\* returns the error before scheduling: no wave is started, no task is
\* dispatched and no skill-resolution call is made.
\* ====================================================================
C20_PlanningErrorBeforeScheduling ==
    err.kind = "plan" =>
        /\ pc = "done"
        /\ out = NoOutput
        /\ wave = 0
        /\ DOMAIN results = {}
        /\ \A id \in TaskIds : ~Started(id) /\ ~ChatCalled(id)

C20_Witness ==
    pc = "done" /\ err.kind = "plan" /\ out = NoOutput

\* ----------------------------------------- vocabulary of the substitution
\* number of places at which pat occurs in the text s
Occ(pat, s) == Cardinality({i \in 1..(Len(s) - Len(pat) + 1) : SubSeq(s, i, i + Len(pat) - 1) = pat})

RECURSIVE SumOver(_, _)
SumOver(f, D) ==
    IF D = {} THEN 0
    ELSE LET k == CHOOSE x \in D : TRUE IN f[k] + SumOver(f, D \ {k})

\* number of places at which pat occurs in the strings of a value, at any depth
RECURSIVE OccIn(_, _)
OccIn(pat, val) ==
    CASE val.kind = "string" -> Occ(pat, val.v)
      [] val.kind = "map[string]string" ->
            SumOver([k \in DOMAIN val.v |-> Occ(pat, val.v[k])], DOMAIN val.v)
      [] val.kind \in {"map[string]any", "[]any"} ->
            SumOver([k \in DOMAIN val.v |-> OccIn(pat, val.v[k])], DOMAIN val.v)
      [] OTHER -> 0

\* b has the shape of a: the same map keys, the same list lengths, a string
\* where a has a string, and the very value of a where a has any other value
RECURSIVE SameShape(_, _)
SameShape(a, b) ==
    CASE a.kind = "string" -> b.kind = "string"
      [] a.kind = "map[string]string" ->
            \/ b.kind = "map[string]string" /\ DOMAIN b.v = DOMAIN a.v
            \/ /\ b.kind = "map[string]any"
               /\ DOMAIN b.v = DOMAIN a.v
               /\ \A k \in DOMAIN a.v : b.v[k].kind = "string"
      [] a.kind \in {"map[string]any", "[]any"} ->
            /\ b.kind = a.kind
            /\ DOMAIN b.v = DOMAIN a.v
            /\ \A k \in DOMAIN a.v : SameShape(a.v[k], b.v[k])
      [] OTHER -> b = a

\* the strings of a value, each under the path that leads to it
RECURSIVE StringsOf(_, _)
StringsOf(val, path) ==
    CASE val.kind = "string" -> {<<path, val.v>>}
      [] val.kind = "map[string]string" -> {<<Append(path, k), val.v[k]>> : k \in DOMAIN val.v}
      [] val.kind \in {"map[string]any", "[]any"} ->
            UNION {StringsOf(val.v[k], Append(path, k)) : k \in DOMAIN val.v}
      [] OTHER -> {}

OutputsD == sub.deps[1].Outputs
Applied == sub.pc \in {"once", "twice"}
AllKeys == {<<w>> : w \in WordAtoms}

Produced(p, types) ==
    /\ p \in DOMAIN asr.summaries
    /\ asr.calls[p].Type \in types
    /\ asr.summaries[p].URL # <<>>

Producers(q, types) == {p \in 1..(q - 1) : Produced(p, types)}

\* the types of action whose URL a key stands for
ProducerTypes(key) ==
    CASE key = KeyDocUrl -> {"feishu_create_doc"}
      [] key = KeyFolderUrl -> {"feishu_create_folder"}
      [] key = KeyLastUrl -> {"feishu_create_doc", "feishu_create_folder"}

UrlKeys == {KeyDocUrl, KeyFolderUrl, KeyLastUrl}
Links == {DocLink, OtherDocLink, FolderLink}

\* C14: once a feishu_create_doc (feishu_create_folder) action was executed
\* successfully with a URL that is not empty, every later action of the
\* request is executed with each {{doc_url}} ({{folder_url}}) and each
\* {{last_url}} token of its params replaced by that URL, and no action is
\* executed with a URL that no action before it produced.
C14_LaterActionsSeeProducedUrl ==
    /\ \A q \in DOMAIN asr.calls : \A key \in {KeyDocUrl, KeyFolderUrl} :
          \A p \in Producers(q, ProducerTypes(key)) :
              /\ OccIn(Token(key), asr.calls[q].Params) = 0
              /\ OccIn(Token(KeyLastUrl), asr.calls[q].Params) = 0
              /\ OccIn(asr.summaries[p].URL, asr.calls[q].Params) >=
                    OccIn(Token(key), asr.actions[q].Params)
                        + OccIn(Token(KeyLastUrl), asr.actions[q].Params)
    /\ \A q \in DOMAIN asr.calls : \A u \in Links :
          OccIn(u, asr.calls[q].Params) > 0 =>
              \E p \in Producers(q, ActionTypes) : asr.summaries[p].URL = u

\* C14 (amended): every action is executed with each {{doc_url}},
\* {{folder_url}} and {{last_url}} token of its params replaced by the URL of
\* the latest action before it that was executed successfully with a URL
\* that is not empty and was a feishu_create_doc, a feishu_create_folder, or
\* either of the two; where there is no such action the token stays; and no
\* action is executed with a URL that no action before it produced.
C14_LaterActionsSeeLatestUrl ==
    /\ \A q \in DOMAIN asr.calls : \A key \in UrlKeys :
          IF Producers(q, ProducerTypes(key)) = {}
          THEN OccIn(Token(key), asr.calls[q].Params) = OccIn(Token(key), asr.actions[q].Params)
          ELSE /\ OccIn(Token(key), asr.calls[q].Params) = 0
               /\ OccIn(asr.summaries[Max(Producers(q, ProducerTypes(key)))].URL, asr.calls[q].Params)
                     >= OccIn(Token(key), asr.actions[q].Params)
    /\ \A q \in DOMAIN asr.calls : \A u \in Links :
          OccIn(u, asr.calls[q].Params) > 0 =>
              \E p \in Producers(q, ActionTypes) : asr.summaries[p].URL = u

C14_Witness ==
    /\ Len(asr.calls) = MaxActions
    /\ Produced(1, {"feishu_create_doc"}) /\ asr.summaries[1].URL = DocLink
    /\ Produced(2, {"feishu_create_folder"})
    /\ OccIn(Token(KeyDocUrl), asr.actions[2].Params) = 1
    /\ OccIn(DocLink, asr.calls[2].Params) = 1
    /\ OccIn(Token(KeyLastUrl), asr.actions[3].Params) = 1
    /\ OccIn(FolderLink, asr.calls[3].Params) = 1

\* C17: a token whose key the placeholder store does not hold stays in the
\* text as it is, in resolvePlaceholders and in applyPlaceholders alike, and
\* the substitution returns normally; a text none of whose tokens has a key
\* of the store comes back unchanged.
C17_AbsentKeyLeftLiteral ==
    Applied =>
        /\ \A key \in AllKeys \ DOMAIN sub.store :
              /\ Occ(Token(key), sub.rOnce) >= Occ(Token(key), sub.text)
              /\ OccIn(Token(key), sub.once.Params) >= OccIn(Token(key), sub.spec.Params)
        /\ (\A k \in DOMAIN sub.store : Occ(Token(k), sub.text) = 0) => sub.rOnce = sub.text
        /\ (\A k \in DOMAIN sub.store : OccIn(Token(k), sub.spec.Params) = 0) =>
              /\ sub.once.Type = sub.spec.Type
              /\ StringsOf(sub.once.Params, <<>>) = StringsOf(sub.spec.Params, <<>>)

C17_Witness ==
    /\ Applied
    /\ sub.store = (KeyFolderUrl :> FolderLink)
    /\ sub.text = Token(KeyDocUrl) \o <<" ">> \o Token(KeyFolderUrl)
    /\ sub.rOnce = Token(KeyDocUrl) \o <<" ">> \o FolderLink
    /\ sub.spec.Params = ParamShapes(sub.text)[2]
    /\ sub.once.Params = Map("title" :> Str(sub.rOnce))

\* C18: applying the substitution to its own result, the store unchanged,
\* returns that result again, whatever the input and the store.
C18_Idempotent ==
    sub.pc = "twice" => (sub.twice = sub.once /\ sub.rTwice = sub.rOnce)

\* C18 (amended): applying the substitution to its own result returns that
\* result again whenever the result holds no token whose key is in the store.
C18_IdempotentWithoutResolvable ==
    sub.pc = "twice" =>
        /\ (\A k \in DOMAIN sub.store : OccIn(Token(k), sub.once.Params) = 0) => sub.twice = sub.once
        /\ (\A k \in DOMAIN sub.store : Occ(Token(k), sub.rOnce) = 0) => sub.rTwice = sub.rOnce

C18_Witness ==
    /\ sub.pc = "twice"
    /\ sub.store = (KeyDocUrl :> DocLink)
    /\ sub.text = <<"{", "{">> \o Token(KeyFolderUrl) \o Token(KeyDocUrl)
    /\ sub.spec.Params = ParamShapes(sub.text)[3]
    /\ sub.once # sub.spec /\ sub.twice = sub.once
    /\ sub.rOnce # sub.text /\ sub.rTwice = sub.rOnce

\* C19: one pass of applyPlaceholders over the Params keeps their shape (map
\* keys, list lengths and order), returns every value that is no string as
\* it was, and replaces every token of a key of the store at every depth:
\* a link held by the store stands in the result once for each token, in
\* the input, of a key that holds it.
C19_NestedPassReplacesAll ==
    Applied =>
        /\ sub.once.Type = sub.spec.Type
        /\ SameShape(sub.spec.Params, sub.once.Params)
        /\ \A k \in DOMAIN sub.store :
              sub.store[k] \in {DocLink, FolderLink} =>
                  OccIn(sub.store[k], sub.once.Params) =
                      SumOver([j \in DOMAIN sub.store |->
                                  IF sub.store[j] = sub.store[k]
                                  THEN OccIn(Token(j), sub.spec.Params) ELSE 0],
                              DOMAIN sub.store)

C19_Witness ==
    /\ Applied
    /\ sub.store = (KeyDocUrl :> DocLink @@ KeyFolderUrl :> FolderLink)
    /\ sub.text = Token(KeyDocUrl) \o <<"x">> \o Token(KeyFolderUrl)
    /\ sub.spec.Params = ParamShapes(sub.text)[3]
    /\ sub.once.Params =
          Map("content" :> Map("text" :> Str(DocLink \o <<"x">> \o FolderLink) @@ "pinned" :> Flag)
              @@ "targets" :> List(<<Str(DocLink \o <<"x">> \o FolderLink), Flag,
                                     List(<<Str(DocLink)>>)>>))

\* ------------------------------- vocabulary of ParseSendMessageParams
\* the entry of a map under a key is a string
IsString(m, key) == key \in DOMAIN m /\ m[key].kind = "string"

\* the list under "targets", <<>> where there is none
TargetsList == IF "targets" \in DOMAIN prs.params /\ prs.params["targets"].kind = "[]any"
               THEN prs.params["targets"].v ELSE <<>>
StringPlaces == {i \in DOMAIN TargetsList : TargetsList[i].kind = "string"}
\* the place of the j-th string of the list
PlaceOf(j) == CHOOSE i \in StringPlaces : Cardinality({k \in StringPlaces : k < i}) = j - 1

\* the map under "content", <<>> where there is none
ContentMap == IF "content" \in DOMAIN prs.params /\ prs.params["content"].kind = "map[string]any"
              THEN prs.params["content"].v ELSE <<>>

\* C21: ParseSendMessageParams copies platform, message_type, target_type and
\* content.text, title, url, description exactly when the entry is a string,
\* collects the strings of targets in their order, and leaves every other
\* field at its zero value.
C21_ParseCopiesStrings ==
    prs.pc = "returned" =>
        /\ prs.result.Platform = (IF IsString(prs.params, "platform") THEN prs.params["platform"].v ELSE "")
        /\ prs.result.MessageType =
              (IF IsString(prs.params, "message_type") THEN prs.params["message_type"].v ELSE "")
        /\ prs.result.TargetType =
              (IF IsString(prs.params, "target_type") THEN prs.params["target_type"].v ELSE "")
        /\ prs.result.Content.Text = (IF IsString(ContentMap, "text") THEN ContentMap["text"].v ELSE "")
        /\ prs.result.Content.Title = (IF IsString(ContentMap, "title") THEN ContentMap["title"].v ELSE "")
        /\ prs.result.Content.URL = (IF IsString(ContentMap, "url") THEN ContentMap["url"].v ELSE "")
        /\ prs.result.Content.Description =
              (IF IsString(ContentMap, "description") THEN ContentMap["description"].v ELSE "")
        /\ Len(prs.result.Targets) = Cardinality(StringPlaces)
        /\ \A j \in DOMAIN prs.result.Targets : prs.result.Targets[j] = TargetsList[PlaceOf(j)].v
        /\ DOMAIN prs.params = {} => prs.result = ZeroParams

C21_Witness ==
    /\ prs.pc = "returned"
    /\ DOMAIN prs.params = {"platform", "message_type", "targets", "content"}
    /\ IsString(prs.params, "platform") /\ ~IsString(prs.params, "message_type")
    /\ Len(TargetsList) = MaxTargets /\ StringPlaces = {MaxTargets}
    /\ DOMAIN ContentMap = {"url", "title"}
    /\ IsString(ContentMap, "url") /\ ~IsString(ContentMap, "title")
    /\ prs.result = [ZeroParams EXCEPT !.Platform = "s", !.Targets = <<TargetsList[MaxTargets].v>>,
                                    !.Content.URL = "c"]

\* executeTask has returned the local result of the goroutine of id
Returned(id) == tpc[id] \in {"lock", "locked", "done"}

\* a TaskResult has an error and no action, or an action and no error, and no outputs
ErrorOrAction(r) ==
    /\ (r.Error # NoError) # (r.Action # NoAction)
    /\ r.Outputs = <<>>

\* C22: every TaskResult that executeTask produces has exactly one of Error
\* and Action set and no outputs: an unknown skill, a failed resolver call or
\* a reply that cannot be parsed give an error and no action, anything else
\* gives an action and no error.
C22_ErrorXorAction ==
    /\ \A id \in TaskIds : Returned(id) =>
          /\ ErrorOrAction(res[id])
          /\ res[id].TaskID = id
          /\ Scheduled(id).Skill \notin skillPrompts <=> res[id].Error = "unknown_skill"
          /\ res[id].Error \in {NoError, "unknown_skill", "chat_failed", "parse_failed"}
    /\ \A id \in DOMAIN results : ErrorOrAction(results[id])

C22_Witness ==
    \E a \in TaskIds, b \in TaskIds :
        /\ Recorded(a) /\ results[a].Error = "parse_failed" /\ results[a].Action = NoAction
        /\ Recorded(b) /\ results[b].Error = NoError /\ results[b].Action # NoAction

\* C23: the result of a task is recorded once: an entry of results, once
\* set, is never overwritten, changed or removed while the plan is executed.
C23_ResultsWriteOnce ==
    [][\A id \in DOMAIN results : id \in DOMAIN results' /\ results'[id] = results[id]]_vars

C23_Witness ==
    \E a \in TaskIds, b \in TaskIds :
        /\ Recorded(a) /\ Recorded(b)
        /\ waveOf[a] < waveOf[b]
        /\ results[a] = res[a] /\ results[b] = res[b]

\* C24: nothing is retried: executeTask, and with it the resolver call, runs
\* at most once for a task, also when it fails, and a task whose result is
\* recorded is not dispatched again.
C24_NothingRetried ==
    /\ \A i \in DOMAIN executed : executed[i] <= 1
    /\ \A id \in TaskIds : Recorded(id) => tpc[id] = "done"
    /\ \A id \in TaskIds : ChatCalled(id) => executed[Max({i \in DOMAIN tasks : tasks[i].ID = id})] = 1

C24_Witness ==
    /\ pc = "done" /\ err.kind = "task"
    /\ \E id \in TaskIds :
          /\ Failed(id) /\ results[id].Error = "chat_failed"
          /\ ChatCalled(id)
          /\ executed[Max({i \in DOMAIN tasks : tasks[i].ID = id})] = 1

ExecCarried == UNION {DOMAIN ex.deps[i].Outputs : i \in DOMAIN ex.deps}
\* every output value of depResults is a link, a text without braces
ExecValuesPlain ==
    \A i \in DOMAIN ex.deps : \A k \in DOMAIN ex.deps[i].Outputs :
        ex.deps[i].Outputs[k] \in {DocLink, FolderLink}
\* client.Chat was called with ex.input
ExecChatCalled == ex.pc = "chat" \/ (ex.pc = "returned" /\ ex.result.Error # "unknown_skill")
\* the returned action has a platform among its Params
ExecHasPlatform ==
    /\ ex.pc = "returned"
    /\ ex.result.Action.Params # NilParams
    /\ "platform" \in DOMAIN ex.result.Action.Params.v
\* the text handed to client.Chat holds no token of a key that a result
\* carries, and as many links as the input had such tokens
ExecInputSubstituted ==
    /\ \A k \in ExecCarried : Occ(Token(k), ex.input) = 0
    /\ Occ(DocLink, ex.input) + Occ(FolderLink, ex.input) =
          SumOver([k \in ExecCarried |-> Occ(Token(k), ex.task.Input)], ExecCarried)

StoreKeys == {KeyDocUrl, KeyFolderUrl, KeyLastUrl, KeyDocId, KeyFolderId, KeyLastNote}
\* the value an action of the type puts out for the key with the summary;
\* <<>> if it puts out none
Emitted(type, summary, key) ==
    CASE type = "feishu_create_doc" /\ key \in {KeyDocUrl, KeyLastUrl} -> summary.URL
      [] type = "feishu_create_folder" /\ key \in {KeyFolderUrl, KeyLastUrl} -> summary.URL
      [] type = "feishu_create_doc" /\ key = KeyDocId -> summary.ID
      [] type = "feishu_create_folder" /\ key = KeyFolderId -> summary.ID
      [] type \in {"feishu_create_doc", "feishu_create_folder"} /\ key = KeyLastNote -> summary.Note
      [] OTHER -> <<>>
\* the step is a turn of the loop in which Execute returned a summary
ExecutedOk == Len(asr'.summaries) = Len(asr.summaries) + 1

\* C27: within one request the placeholders map only grows and only a
\* successfully executed action changes it: no step removes a key, a step in
\* which no action succeeded (a failed action among them) leaves the map as
\* it was, and a successful action sets each key it puts out to its own value,
\* over the value of an earlier action, and leaves the other keys alone.
C27_StoreOnlyGrows ==
    [][/\ DOMAIN asr.placeholders \subseteq DOMAIN asr'.placeholders
       /\ ~ExecutedOk => asr'.placeholders = asr.placeholders
       /\ ExecutedOk =>
             LET type == asr.actions[asr.i].Type
                 summary == asr'.summaries[Len(asr'.summaries)]
             IN  \A k \in StoreKeys :
                    IF Emitted(type, summary, k) # <<>>
                    THEN /\ k \in DOMAIN asr'.placeholders
                         /\ asr'.placeholders[k] = Emitted(type, summary, k)
                    ELSE /\ k \in DOMAIN asr'.placeholders <=> k \in DOMAIN asr.placeholders
                         /\ k \in DOMAIN asr.placeholders =>
                               asr'.placeholders[k] = asr.placeholders[k]]_vars

\* a folder, then a document, then a failing action: last_url is the
\* document's, folder_url is kept, and the failure changed nothing
C27_Witness ==
    /\ asr.pc = "done"
    /\ asr.err = "execute_failed"
    /\ Len(asr.calls) = 3
    /\ Len(asr.summaries) = 2
    /\ asr.calls[1].Type = "feishu_create_folder"
    /\ asr.calls[2].Type = "feishu_create_doc"
    /\ asr.summaries[1].URL = FolderLink
    /\ asr.summaries[2].URL = OtherDocLink
    /\ DOMAIN asr.placeholders = StoreKeys
    /\ asr.placeholders[KeyLastUrl] = OtherDocLink
    /\ asr.placeholders[KeyFolderUrl] = FolderLink
    /\ asr.placeholders[KeyLastNote] = <<"note ", "x">>

\* ------------------------------------- vocabulary of ASRService.Process
\* the j-th call of Execute was for the j-th action of the list; its summary,
\* if it has one, is one of that action
InListOrder(j) ==
    /\ j \in DOMAIN asr.actions
    /\ asr.calls[j].Type = asr.actions[j].Type
    /\ DOMAIN asr.calls[j].Params.v = DOMAIN asr.actions[j].Params.v
    /\ j \in DOMAIN asr.summaries => asr.summaries[j] \in Summaries(asr.actions[j].Type)

\* C28: ASRService.Process executes the actions one at a time in the order
\* of the list and stops at the first error of the executor: the response then
\* has Success false and for Actions the summaries of the actions executed
\* before the failing one, in order, and no later action is executed; Success
\* is true only when every action was executed without an error.
C28_StopsAtFirstError ==
    /\ \A j \in DOMAIN asr.calls : InListOrder(j)
    /\ asr.pc = "loop" =>
          /\ Len(asr.calls) = asr.i - 1
          /\ Len(asr.summaries) = asr.i - 1
    /\ (asr.pc = "done" /\ asr.err = "execute_failed") =>
          /\ ~asr.resp.Success
          /\ asr.resp.Actions = asr.summaries
          /\ Len(asr.calls) = Len(asr.summaries) + 1
          /\ Len(asr.calls) <= Len(asr.actions)
    /\ (asr.pc = "done" /\ asr.resp.Success) =>
          /\ asr.err = NoError
          /\ Len(asr.calls) = Len(asr.actions)
          /\ asr.resp.Actions = asr.summaries
          /\ Len(asr.summaries) = Len(asr.actions)
    /\ (asr.pc = "done" /\ asr.err = NoError) => asr.resp.Success

\* the second of three actions fails: one summary, the third never executed
C28_Witness ==
    /\ asr.pc = "done"
    /\ asr.err = "execute_failed"
    /\ Len(asr.actions) = 3
    /\ Len(asr.calls) = 2
    /\ ~asr.resp.Success
    /\ Len(asr.resp.Actions) = 1
    /\ asr.resp.Actions[1] \in Summaries(asr.actions[1].Type)

\* C29: executeTasks terminates for every plan, cycles, dangling
\* dependencies and duplicate ids included, every Chat call returning: it
\* runs at most as many waves as the plan has distinct ids, and once in its
\* loop it returns.
C29_EveryPlanTerminates ==
    /\ [](wave <= Cardinality(PlanIds))
    /\ (pc = "loop") ~> (pc = "done")

C32_PendingResultsPartition ==
    (pc = "loop" \/ (pc = "wait" /\ \A i \in DOMAIN ready : tpc[ready[i]] = "done")
                 \/ (pc = "done" /\ Len(tasks) > 0)) =>
        /\ DOMAIN pending \cap DOMAIN results = {}
        /\ DOMAIN pending \cup DOMAIN results = PlanIds

\* between the first wave and the second: one id in each map
C32_Witness ==
    /\ pc = "loop"
    /\ wave = 1
    /\ Cardinality(PlanIds) = 2
    /\ Cardinality(DOMAIN pending) = 1
    /\ Cardinality(DOMAIN results) = 1

\* C33: when all tasks succeed each task ran in the earliest wave it could:
\* a task without dependencies in wave 1, any other task in the wave after
\* the latest wave of its dependencies, wherever it stands in the list.
C33_EarliestWave ==
    (pc = "done" /\ err = NilError /\ Len(tasks) > 0) =>
        \A id \in PlanIds :
            waveOf[id] = IF DepsOf(id) = {} THEN 1
                         ELSE 1 + Max({waveOf[d] : d \in DepsOf(id)})

\* the task listed first depends on the one listed second
C33_Witness ==
    /\ pc = "done" /\ err = NilError
    /\ Len(tasks) = 2
    /\ tasks[1].DependsOn = {tasks[2].ID}
    /\ tasks[2].DependsOn = {}
    /\ waveOf[tasks[2].ID] = 1
    /\ waveOf[tasks[1].ID] = 2

\* the place in the list of the last task that carries the id of the i-th
LastWithIdOf(i) == Max({j \in DOMAIN tasks : tasks[j].ID = tasks[i].ID})

\* C34: when tasks of a plan share an id, one task per distinct id is
\* scheduled, the last one listed with it, and it is executed once; the
\* output of a successful run holds the action of that task once for every
\* task listed with the id, so it can hold more actions than tasks were
\* executed.
C34_DuplicateIdsOneExecution ==
    /\ \A i \in DOMAIN tasks : executed[i] <= 1 /\ (LastWithIdOf(i) # i => executed[i] = 0)
    /\ (pc = "done" /\ err = NilError /\ Len(tasks) > 0) =>
          /\ \A i \in DOMAIN tasks : LastWithIdOf(i) = i => executed[i] = 1
          /\ Len(out.Actions) = Len(tasks)
          /\ \A i \in DOMAIN tasks : out.Actions[i].by = LastWithIdOf(i)

\* two tasks with the same id: one execution, two actions, both of the second
C34_Witness ==
    /\ pc = "done" /\ err = NilError
    /\ Len(tasks) = 2
    /\ tasks[1].ID = tasks[2].ID
    /\ tasks[1].Skill # tasks[2].Skill
    /\ executed[1] = 0 /\ executed[2] = 1
    /\ Len(out.Actions) = 2
    /\ out.Actions[1].by = 2 /\ out.Actions[2].by = 2

\* C35: a task whose skill has no prompt fails with the unknown-skill error
\* and no skill-resolution call is made for it; the failure ends the plan
\* after the wave of the task as any other task error does: no further wave
\* is started, and Process returns the error of a failed task of that wave
\* and no output.
C35_UnknownSkillFailsWithoutCall ==
    \A id \in PlanIds :
        Scheduled(id).Skill \notin skillPrompts =>
            /\ tpc[id] \notin {"resolve", "chat"}
            /\ tpc[id] \in {"lock", "locked", "done"} => res[id].Error = "unknown_skill"
            /\ Recorded(id) =>
                  /\ results[id].Error = "unknown_skill"
                  /\ wave = waveOf[id]
                  /\ pc \in {"wait", "done"}
                  /\ pc = "done" =>
                        /\ err.kind = "task"
                        /\ Failed(err.id) /\ waveOf[err.id] = wave
                        /\ err.cause = results[err.id].Error
                        /\ out = NoOutput

\* the first task has no prompt, the second waits for it and is never started
C35_Witness ==
    /\ pc = "done"
    /\ Len(tasks) = 2
    /\ tasks[1].ID # tasks[2].ID
    /\ tasks[1].Skill \notin skillPrompts
    /\ tasks[2].DependsOn = {tasks[1].ID}
    /\ err = TaskError(tasks[1].ID, "unknown_skill")
    /\ ~Started(tasks[2].ID)
    /\ executed[1] = 1

\* C36: executeTask adds the Platform of the task to the params of the
\* action only for a send_message task whose parsed params are not nil and
\* have no "platform": the other params stay; a platform the resolver
\* returned is kept, and the actions of other skills are the parsed ones.
C36_PlatformFilledOnlyWhenMissing ==
    (ex.pc = "returned" /\ ex.result.Error = NoError) =>
        IF /\ ex.task.Skill = SkillSendMessage
           /\ ex.reply.kind # "nil"
           /\ "platform" \notin DOMAIN ex.reply.v
        THEN /\ ex.result.Action.Params.kind = "map[string]any"
             /\ DOMAIN ex.result.Action.Params.v = DOMAIN ex.reply.v \cup {"platform"}
             /\ ex.result.Action.Params.v["platform"] = Str(ex.task.Platform)
             /\ \A k \in DOMAIN ex.reply.v : ex.result.Action.Params.v[k] = ex.reply.v[k]
        ELSE /\ ex.result.Action.Params.kind = ex.reply.kind
             /\ DOMAIN ex.result.Action.Params.v = DOMAIN ex.reply.v
             /\ \A k \in DOMAIN ex.reply.v : ex.result.Action.Params.v[k] = ex.reply.v[k]

\* the resolver named slack, the plan feishu: slack stays
C36_Witness ==
    /\ ex.pc = "returned"
    /\ ex.result.Error = NoError
    /\ ex.task.Skill = SkillSendMessage
    /\ ex.task.Platform = <<"feishu">>
    /\ ex.reply.kind = "map[string]any"
    /\ "platform" \in DOMAIN ex.reply.v
    /\ ex.result.Action.Params.v["platform"] = Str(<<"slack">>)

\* C37: updatePlaceholders leaves the map as it is for every action type
\* but feishu_create_doc and feishu_create_folder; for these two it writes
\* only the keys whose field of the summary (URL, ID, Note) is not empty: a
\* key with an empty field keeps its value or stays absent, and no value of
\* the map is ever empty.
C37_EmptyFieldWritesNothing ==
    [][ExecutedOk =>
          LET type == asr.actions[asr.i].Type
              summary == asr'.summaries[Len(asr'.summaries)]
              written == {k \in StoreKeys : Emitted(type, summary, k) # <<>>}
          IN  /\ type \notin {"feishu_create_doc", "feishu_create_folder"} =>
                    asr'.placeholders = asr.placeholders
              /\ DOMAIN asr'.placeholders = DOMAIN asr.placeholders \cup written
              /\ \A k \in DOMAIN asr.placeholders \ written :
                    asr'.placeholders[k] = asr.placeholders[k]
              /\ \A k \in DOMAIN asr'.placeholders : asr'.placeholders[k] # <<>>]_vars

\* a document with URL, ID and Note, then a document without URL and Note,
\* then a message: doc_url, last_url and last_note are still the first one's
C37_Witness ==
    /\ Len(asr.summaries) = 3
    /\ asr.calls[1].Type = "feishu_create_doc"
    /\ asr.calls[2].Type = "feishu_create_doc"
    /\ asr.calls[3].Type = "feishu_send_im"
    /\ asr.summaries[1].URL = OtherDocLink
    /\ asr.summaries[2].URL = <<>> /\ asr.summaries[2].Note = <<>>
    /\ asr.summaries[2].ID = <<"1">>
    /\ DOMAIN asr.placeholders = {KeyDocUrl, KeyLastUrl, KeyDocId, KeyLastNote}
    /\ asr.placeholders[KeyDocUrl] = OtherDocLink
    /\ asr.placeholders[KeyLastUrl] = OtherDocLink
    /\ asr.placeholders[KeyLastNote] = <<"note ", "x">>
    /\ asr.placeholders[KeyDocId] = <<"1">>

====
